---- MODULE Spec2Model ----
(***************************************************************************)
(* A model of splitdataloader: the split binary storage format and its     *)
(* writer (write_split_data), the random-access reader (SplitDataLoader)   *)
(* with its bin-wise iterator, and the cross-process iteration queue       *)
(* (MpQItr).  Files are modelled as sequences of bytes; every number on    *)
(* disk is the 4-byte little-endian encoding struct.pack("<I", n) makes.   *)
(***************************************************************************)
EXTENDS Integers, Sequences, FiniteSets, TLC

(***************************************************************************)
(* Bounds of the model.                                                    *)
(***************************************************************************)
\* Records drawn from input sequences over the whole run (all sessions).
MaxWrites == 3
\* The writer's `splits` argument ranges over 1..MaxSplits.
MaxSplits == 2

\* Items the wrapped producer yields over the whole run, all iterations
\* together (more than the queue holds).
MaxItems == 17
\* __iter__ calls on one MpQItr.
MaxIters == 2

\* The size of the index file object's write buffer, scaled down: open()
\* takes the file system's block size or io.DEFAULT_BUFFER_SIZE (4096 or
\* 8192 bytes), a power of two as this one.
BufferSize == 16

\* The records an input sequence may hold: the empty record and records of
\* different lengths and contents.
Records == {<<>>, <<7>>, <<8, 9>>}

(***************************************************************************)
(* Program constants.                                                      *)
(***************************************************************************)
\* struct.calcsize("<I")
STRUCT_NUM_FORMAT_SIZE == 4
\* SplitDataLoader.index_packet_size = 3 * 4
index_packet_size == 12

\* MpQItr.qsize
qsize == 16

\* The first bin number "bin{:08d}.dat" prints with nine digits.
NineDigits == 100000000

\* The content of a file that does not exist: no sequence of bytes.
NoFile == <<-1>>

\* The handles self.yield_q and self.proc hold a queue's or worker's number
\* (1, 2, ...), or None, or are not set yet (__init__ sets neither).
None == 0
Unset == -1

VARIABLES
    \* ---- the dataset directory
    dir_exists,     \* target_dir exists
    index_file,     \* bytes of index.dat on disk, or NoFile
    index_buf,      \* bytes written to the open index file, not yet on disk
    bin_files,      \* bin number -> bytes of bin{:08d}.dat, for the files that exist
    \* ---- the running write_split_data session
    wpc,            \* "idle", "loop", "index", "done", "failed"
    splits,         \* argument splits
    shuffle,        \* argument shuffle
    start_clean,    \* argument start_clean
    indexes,        \* the shuffled list(range(splits)), or <<>>
    enum_idx,       \* the counter of enumerate(input_sequence)
    triplet,        \* (idx, position, length) of the record being indexed
    fields_done,    \* how many values of `triplet` are written to the index file
    submitted,      \* the records drawn from input_sequence by this session
    earlier,        \* the records written by the sessions before this one,
                    \* since the directory was last emptied
    writes,         \* records drawn from input sequences so far (all sessions)
    \* ---- the reader
    rd,             \* the last reader call and its outcome
    clean_history,  \* no session failed since the directory was last emptied
    \* ---- MpQItr
    yield_q,        \* self.yield_q: Unset before __iter__, None, or a queue's number
    proc,           \* self.proc: Unset, None, or a worker's number
    queues,         \* queue number -> the entries in the Queue, oldest first
    workers,        \* worker number -> the state of its iterator_handler
    out,            \* the items __next__ has returned in the current iteration
    last_next       \* how the last __next__ call ended

storage_vars == <<dir_exists, index_file, index_buf, bin_files, wpc, splits,
                  shuffle, start_clean, indexes, enum_idx, triplet,
                  fields_done, submitted, earlier, writes, rd, clean_history>>

queue_vars == <<yield_q, proc, queues, workers, out, last_next>>

vars == <<storage_vars, queue_vars>>

(***************************************************************************)
(* Helpers on sequences.                                                   *)
(***************************************************************************)
Min(a, b) == IF a < b THEN a ELSE b

Range(s) == {s[i] : i \in DOMAIN s}

\* The permutations of a sequence, as sequences (random.shuffle's outcomes).
Shuffles(s) ==
    {[i \in 1..Len(s) |-> s[f[i]]] : f \in Permutations(1..Len(s))}

\* list(range(n))
range(n) == [i \in 1..n |-> i - 1]

\* The multiset of a sequence's elements.
BagOf(s) == [x \in Range(s) |-> Cardinality({i \in DOMAIN s : s[i] = x})]

(***************************************************************************)
(* struct.pack / struct.unpack, file reads.                                *)
(***************************************************************************)
\* struct.pack("<I", number): 4 bytes, least significant first.
struct_pack(number) ==
    <<number % 256, (number \div 256) % 256,
      (number \div 65536) % 256, (number \div 16777216) % 256>>

\* struct.unpack("<I", data)[0] of 4 bytes.
struct_unpack(data) ==
    data[1] + 256 * data[2] + 65536 * data[3] + 16777216 * data[4]

\* reader.seek(pos); reader.read(n): the bytes that are there, maybe fewer.
file_read(file, pos, n) == SubSeq(file, pos + 1, Min(pos + n, Len(file)))

\* read_struct_unpack on a reader positioned at pos.  An empty read is
\* (False, 0); 1 to 3 bytes make struct.unpack raise struct.error.
read_struct_unpack(file, pos) ==
    LET data == file_read(file, pos, STRUCT_NUM_FORMAT_SIZE)
    IN  IF data = <<>> THEN [valid |-> FALSE, number |-> 0, raised |-> "none"]
        ELSE IF Len(data) < STRUCT_NUM_FORMAT_SIZE
             THEN [valid |-> FALSE, number |-> 0, raised |-> "struct.error"]
             ELSE [valid |-> TRUE, number |-> struct_unpack(data), raised |-> "none"]

\* A size prefix that counts its own 4 bytes.
write_size_prefixed_counts_prefix(data) ==
    struct_pack(Len(data) + STRUCT_NUM_FORMAT_SIZE) \o data

\* The bytes struct_pack_write(writer, len(data)); writer.write(data) append.
write_size_prefixed(data) == struct_pack(Len(data)) \o data

\* "{:08d}".format(index): the decimal digits, zero-padded to 8 at least.
RECURSIVE decimal(_)
decimal(n) == IF n < 10 THEN <<n>> ELSE Append(decimal(n \div 10), n % 10)

\* get_bin_file_for_index: the digits that tell bin file names apart
\* ("bin" and ".dat" are the same in every name).
get_bin_file_for_index(index) ==
    LET d == decimal(index)
    IN  IF Len(d) < 8 THEN [i \in 1..(8 - Len(d)) |-> 0] \o d ELSE d

\* str < str on two file names: the first differing character decides, a
\* proper prefix comes first.
RECURSIVE name_less(_, _)
name_less(a, b) ==
    IF a = <<>> THEN b # <<>>
    ELSE IF b = <<>> THEN FALSE
    ELSE IF Head(a) # Head(b) THEN Head(a) < Head(b)
    ELSE name_less(Tail(a), Tail(b))

(***************************************************************************)
(* write_split_data, step by step.                                         *)
(***************************************************************************)
Quiescent == wpc \in {"idle", "done", "failed"}

\* open(path, "wb"): the file is created, or truncated if it exists.
open_wb(file) == <<>>

\* writer.write(data) on the buffered file object open() returns: the bytes
\* go to the buffer while they fit; when they do not, the buffer is written
\* to the disk first.
buffered_write(disk, buf, data) ==
    IF Len(buf) + Len(data) <= BufferSize
    THEN [disk |-> disk, buf |-> buf \o data]
    ELSE [disk |-> disk \o buf, buf |-> data]

\* close(), and the finalizer of a file object that is dropped: the buffer
\* is written to the disk.
flush(disk, buf) == disk \o buf

\* The records the session that ran last has written: all it drew, but for
\* the one at which it failed.
written_records ==
    IF wpc = "failed" THEN SubSeq(submitted, 1, Len(submitted) - 1)
    ELSE submitted

\* A position left at its initial value 0 (line 125).
tell_never_updated(file) == 0

\* writer.tell() just after open(path, "ab"): the size of the file.
tell(file) == Len(file)

\* Lines 110-113: `list` is what random.shuffle can make of list(range(n)).
\* A run looks up the first MaxWrites entries at most, and of a longer list
\* the model keeps those.
is_shuffled(list, n) ==
    /\ Len(list) = Min(n, MaxWrites)
    /\ \A i \in DOMAIN list : list[i] \in 0..(n - 1)
    /\ \A i, j \in DOMAIN list : i # j => list[i] # list[j]

\* Lines 99-116: rmtree if start_clean, mkdir, shuffle the bin numbers, and
\* open(index_file_path, "wb").  A session begins when none is running and
\* while the run may still draw records; a reader call changes nothing a
\* session reads, so sessions are explored from the states without an
\* observed call.
BeginSession(p_splits, p_shuffle, p_start_clean, p_indexes) ==
    /\ Quiescent /\ rd.op = "none"
    /\ writes < MaxWrites
    /\ IF p_shuffle THEN is_shuffled(p_indexes, p_splits)
       ELSE p_indexes = <<>>
    /\ dir_exists' = TRUE
    /\ bin_files' = IF p_start_clean THEN <<>> ELSE bin_files
    /\ index_file' = open_wb(index_file)
    /\ index_buf' = <<>>
    /\ earlier' = IF p_start_clean THEN <<>> ELSE earlier \o written_records
    /\ splits' = p_splits
    /\ shuffle' = p_shuffle
    /\ start_clean' = p_start_clean
    /\ indexes' = p_indexes
    /\ enum_idx' = 0
    /\ triplet' = <<0, 0, 0>>
    /\ fields_done' = 0
    /\ submitted' = <<>>
    /\ wpc' = "loop"
    /\ rd' = [op |-> "none"]
    /\ clean_history' = (p_start_clean \/ clean_history)
    /\ UNCHANGED writes

\* The bin number line 118-122 gives the record at enumerate position i.
bin_index_for(i) == IF shuffle THEN indexes[i + 1] ELSE i

\* Lines 118-132: the next record of input_sequence is appended, size
\* prefixed, to its bin file; position is the file's size before the append.
WriteRecord(data) ==
    /\ wpc = "loop"
    /\ writes < MaxWrites
    /\ ~(shuffle /\ enum_idx >= splits)
    /\ LET idx == bin_index_for(enum_idx)
           old == IF idx \in DOMAIN bin_files THEN bin_files[idx] ELSE <<>>
           position == tell(old)
       IN  /\ bin_files' = (idx :> (old \o write_size_prefixed(data))) @@ bin_files
           /\ triplet' = <<idx, position, Len(data)>>
    /\ fields_done' = 0
    /\ submitted' = Append(submitted, data)
    /\ writes' = writes + 1
    /\ wpc' = "index"
    /\ UNCHANGED <<dir_exists, index_file, index_buf, splits, shuffle,
                   start_clean, indexes, enum_idx, earlier, rd, clean_history>>

\* Line 120 with shuffle and idx >= splits: indexes[idx] raises IndexError,
\* which ends the session; the index file object is dropped with the frame
\* and its finalizer writes the buffer out.
ShuffleIndexError(data) ==
    /\ wpc = "loop"
    /\ writes < MaxWrites
    /\ shuffle /\ enum_idx >= splits
    /\ submitted' = Append(submitted, data)
    /\ writes' = writes + 1
    /\ wpc' = "failed"
    /\ clean_history' = FALSE
    /\ index_file' = flush(index_file, index_buf)
    /\ index_buf' = <<>>
    /\ UNCHANGED <<dir_exists, bin_files, splits, shuffle, start_clean,
                   indexes, enum_idx, triplet, fields_done, earlier, rd>>

\* Lines 135-136: one struct_pack_write of (idx, position, length) to the
\* index file; after the third the loop takes the next record.
WriteIndexField ==
    /\ wpc = "index"
    /\ LET w == buffered_write(index_file, index_buf,
                               struct_pack(triplet[fields_done + 1]))
       IN  index_file' = w.disk /\ index_buf' = w.buf
    /\ fields_done' = fields_done + 1
    /\ IF fields_done + 1 = 3
       THEN wpc' = "loop" /\ enum_idx' = enum_idx + 1
       ELSE UNCHANGED <<wpc, enum_idx>>
    /\ UNCHANGED <<dir_exists, bin_files, splits, shuffle, start_clean,
                   indexes, triplet, submitted, earlier, writes, rd,
                   clean_history>>

\* Line 138: input_sequence is exhausted; index_file.close().
EndSession ==
    /\ wpc = "loop"
    /\ wpc' = "done"
    /\ index_file' = flush(index_file, index_buf)
    /\ index_buf' = <<>>
    /\ UNCHANGED <<dir_exists, bin_files, splits, shuffle, start_clean,
                   indexes, enum_idx, triplet, fields_done, submitted,
                   earlier, writes, rd, clean_history>>

(***************************************************************************)
(* SplitDataLoader.                                                        *)
(***************************************************************************)
\* __len__: index.dat's size // index_packet_size; stat() raises
\* FileNotFoundError when the file is missing.
len_result ==
    IF index_file = NoFile
    THEN [op |-> "len", kind |-> "FileNotFoundError", value |-> 0]
    ELSE [op |-> "len", kind |-> "ok",
          value |-> Len(index_file) \div index_packet_size]

\* A seek to idx itself, not to index_packet_size * idx.
index_reads_seek_idx(idx) ==
    [k \in 1..3 |->
        read_struct_unpack(index_file, idx + STRUCT_NUM_FORMAT_SIZE * (k - 1))]

\* Lines 166-176: the values read_struct_unpack gives at location,
\* location + 4, location + 8 of the index file.
index_reads(idx) ==
    [k \in 1..3 |->
        read_struct_unpack(index_file,
                           index_packet_size * idx + STRUCT_NUM_FORMAT_SIZE * (k - 1))]

\* A check that only catches a stored size below the index's length.
size_mismatch_only_shorter(packet_size, length) == packet_size < length

\* Line 187: the size read from the bin file against the index's length.
size_mismatch(packet_size, length) == packet_size # length

\* Lines 178-190: the packet at `position` of bin file `index`.
bin_lookup(idx, index, position, length) ==
    IF index \notin DOMAIN bin_files
    THEN [op |-> "getitem", idx |-> idx, kind |-> "FileNotFoundError",
          msg |-> "bin file", data |-> <<>>, bin_opened |-> FALSE]
    ELSE LET file == bin_files[index]
             size == read_struct_unpack(file, position)
         IN  IF size.raised # "none"
             THEN [op |-> "getitem", idx |-> idx, kind |-> size.raised,
                   msg |-> "unpack", data |-> <<>>, bin_opened |-> TRUE]
             ELSE IF ~size.valid
             THEN [op |-> "getitem", idx |-> idx, kind |-> "ValueError",
                   msg |-> "unable to read size", data |-> <<>>, bin_opened |-> TRUE]
             ELSE IF size_mismatch(size.number, length)
             THEN [op |-> "getitem", idx |-> idx, kind |-> "ValueError",
                   msg |-> "Size mismatch", data |-> <<>>, bin_opened |-> TRUE]
             ELSE [op |-> "getitem", idx |-> idx, kind |-> "ok", msg |-> "",
                   data |-> file_read(file, position + STRUCT_NUM_FORMAT_SIZE, length),
                   bin_opened |-> TRUE]

\* __getitem__(idx), idx >= 0.
getitem(idx) ==
    IF index_file = NoFile
    THEN [op |-> "getitem", idx |-> idx, kind |-> "FileNotFoundError",
          msg |-> "index file", data |-> <<>>, bin_opened |-> FALSE]
    ELSE LET v == index_reads(idx)
             bad == {k \in 1..3 : ~v[k].valid}
         IN  IF bad # {}
             THEN LET k == CHOOSE x \in bad : \A y \in bad : x <= y
                  IN  IF v[k].raised # "none"
                      THEN [op |-> "getitem", idx |-> idx, kind |-> v[k].raised,
                            msg |-> "unpack", data |-> <<>>, bin_opened |-> FALSE]
                      ELSE [op |-> "getitem", idx |-> idx, kind |-> "ValueError",
                            msg |-> "unable to read value", data |-> <<>>,
                            bin_opened |-> FALSE]
             ELSE bin_lookup(idx, v[1].number, v[2].number, v[3].number)

\* read_size_prefixed on a reader positioned at pos: (valid, data), or the
\* IOError of a payload shorter than its size, or struct.error.
read_size_prefixed(file, pos) ==
    LET size == read_struct_unpack(file, pos)
        data == file_read(file, pos + STRUCT_NUM_FORMAT_SIZE, size.number)
    IN  IF size.raised # "none"
        THEN [valid |-> FALSE, data |-> <<>>, raised |-> size.raised]
        ELSE IF ~size.valid
        THEN [valid |-> FALSE, data |-> <<>>, raised |-> "none"]
        ELSE IF Len(data) # size.number
        THEN [valid |-> FALSE, data |-> <<>>, raised |-> "IOError"]
        ELSE [valid |-> TRUE, data |-> data, raised |-> "none"]

\* read_all_size_prefixed_packets from pos on: the packets, and what was
\* raised ("none" when the file ends cleanly).
RECURSIVE read_all_size_prefixed_packets(_, _)
read_all_size_prefixed_packets(file, pos) ==
    LET r == read_size_prefixed(file, pos)
    IN  IF ~r.valid
        THEN [packets |-> <<>>, raised |-> r.raised]
        ELSE LET rest == read_all_size_prefixed_packets(
                             file, pos + STRUCT_NUM_FORMAT_SIZE + Len(r.data))
             IN  [packets |-> <<r.data>> \o rest.packets, raised |-> rest.raised]

\* Lines 198-202: the bin files rglob finds, shuffled or sorted by name.
bin_file_orders(p_shuffle) ==
    LET found  == DOMAIN bin_files
        orders == {o \in [1..Cardinality(found) -> found] :
                      \A i, j \in DOMAIN o : i # j => o[i] # o[j]}
    IN  IF p_shuffle THEN orders
        ELSE {o \in orders :
                 \A i, j \in DOMAIN o :
                     i < j => name_less(get_bin_file_for_index(o[i]),
                                        get_bin_file_for_index(o[j]))}

\* Lines 203-209 from the k-th bin file of `order` on: the sequences a whole
\* traversal may yield and how it ends.  A bin file that raises while decoded
\* yields none of its packets.
RECURSIVE binwise_from(_, _, _)
binwise_from(order, k, p_shuffle) ==
    IF k > Len(order) THEN {[out |-> <<>>, kind |-> "ok"]}
    ELSE LET r == read_all_size_prefixed_packets(bin_files[order[k]], 0)
         IN  IF r.raised # "none" THEN {[out |-> <<>>, kind |-> r.raised]}
             ELSE {[out |-> p \o t.out, kind |-> t.kind] :
                      p \in (IF p_shuffle THEN Shuffles(r.packets) ELSE {r.packets}),
                      t \in binwise_from(order, k + 1, p_shuffle)}

\* iterate_binwise(shuffle), run to its end.
iterate_binwise(p_shuffle) ==
    UNION {binwise_from(o, 1, p_shuffle) : o \in bin_file_orders(p_shuffle)}

\* ---- reader calls.  The reader keeps no state between calls, so a call's
\* outcome depends on the directory alone: rd holds the one call observed
\* since the last session began, made while no session is running.
ReaderIdle == Quiescent /\ rd.op = "none"

CallLen ==
    /\ ReaderIdle
    /\ rd' = len_result
    /\ UNCHANGED <<dir_exists, index_file, index_buf, bin_files, wpc, splits,
                   shuffle, start_clean, indexes, enum_idx, triplet,
                   fields_done, submitted, earlier, writes, clean_history>>

CallGetItem(idx) ==
    /\ ReaderIdle
    /\ rd' = getitem(idx)
    /\ UNCHANGED <<dir_exists, index_file, index_buf, bin_files, wpc, splits,
                   shuffle, start_clean, indexes, enum_idx, triplet,
                   fields_done, submitted, earlier, writes, clean_history>>

CallIterateBinwise(p_shuffle) ==
    /\ ReaderIdle
    /\ \E r \in iterate_binwise(p_shuffle) :
          rd' = [op |-> "binwise", shuffle |-> p_shuffle, kind |-> r.kind,
                 out |-> r.out]
    /\ UNCHANGED <<dir_exists, index_file, index_buf, bin_files, wpc, splits,
                   shuffle, start_clean, indexes, enum_idx, triplet,
                   fields_done, submitted, earlier, writes, clean_history>>

(***************************************************************************)
(* The storage specification: write sessions and reader calls.             *)
(***************************************************************************)
Init ==
    /\ dir_exists = FALSE
    /\ index_file = NoFile
    /\ index_buf = <<>>
    /\ bin_files = <<>>
    /\ wpc = "idle"
    /\ splits = 1
    /\ shuffle = FALSE
    /\ start_clean = FALSE
    /\ indexes = <<>>
    /\ enum_idx = 0
    /\ triplet = <<0, 0, 0>>
    /\ fields_done = 0
    /\ submitted = <<>>
    /\ earlier = <<>>
    /\ writes = 0
    /\ rd = [op |-> "none"]
    /\ clean_history = TRUE
    /\ yield_q = Unset
    /\ proc = Unset
    /\ queues = <<>>
    /\ workers = <<>>
    /\ out = <<>>
    /\ last_next = "none"

\* What random.shuffle can make of list(range(n)), for every n in use.
shuffled_lists == [n \in 1..MaxSplits |-> Shuffles(range(n))]

WriterNext ==
    \/ /\ Quiescent
       /\ \E s \in 1..MaxSplits, sh \in BOOLEAN, c \in BOOLEAN :
             \E p \in (IF sh THEN shuffled_lists[s] ELSE {<<>>}) :
                BeginSession(s, sh, c, p)
       /\ UNCHANGED queue_vars
    \/ (\E data \in Records : WriteRecord(data)) /\ UNCHANGED queue_vars
    \/ (\E data \in Records : ShuffleIndexError(data)) /\ UNCHANGED queue_vars
    \/ WriteIndexField /\ UNCHANGED queue_vars
    \/ EndSession /\ UNCHANGED queue_vars

ReaderNext ==
    \/ CallLen /\ UNCHANGED queue_vars
    \/ (\E i \in 0..(MaxWrites + 1) : CallGetItem(i)) /\ UNCHANGED queue_vars
    \/ (\E sh \in BOOLEAN : CallIterateBinwise(sh)) /\ UNCHANGED queue_vars

StorageNext == WriterNext \/ ReaderNext

Spec == Init /\ [][StorageNext]_vars

(***************************************************************************)
(* A stored length prefix is overwritten: the corruption of spec section 8 *)
(* ("mutating a stored length prefix to a different value than the        *)
(* index-recorded length").                                                *)
(***************************************************************************)
\* The complete triplets of the index file.
NumEntries == IF index_file = NoFile THEN 0 ELSE Len(index_file) \div index_packet_size

IndexEntry(i) ==
    [k \in 1..3 |->
        struct_unpack(SubSeq(index_file,
                             index_packet_size * i + STRUCT_NUM_FORMAT_SIZE * (k - 1) + 1,
                             index_packet_size * i + STRUCT_NUM_FORMAT_SIZE * k))]

\* Entry i's bin file holds 4 bytes at the entry's byte_offset.
PrefixStored(i) ==
    LET e == IndexEntry(i)
    IN  /\ e[1] \in DOMAIN bin_files
        /\ e[2] + STRUCT_NUM_FORMAT_SIZE <= Len(bin_files[e[1]])

StoredPrefix(i) ==
    LET e == IndexEntry(i)
    IN  struct_unpack(SubSeq(bin_files[e[1]], e[2] + 1, e[2] + STRUCT_NUM_FORMAT_SIZE))

\* Every complete index entry points at a prefix equal to its length.
Intact ==
    \A j \in 0..(NumEntries - 1) :
        PrefixStored(j) /\ StoredPrefix(j) = IndexEntry(j)[3]

\* One prefix of the intact dataset a completed session left is overwritten
\* with v, a value other than the length the index records (the model
\* takes the values just below and just above it).
CorruptPrefix(i, v) ==
    /\ wpc = "done" /\ rd.op = "none"
    /\ i < NumEntries
    /\ Intact
    /\ v >= 0 /\ v # IndexEntry(i)[3]
    /\ LET e == IndexEntry(i)
           file == bin_files[e[1]]
       IN  bin_files' = [bin_files EXCEPT ![e[1]] =
                            SubSeq(file, 1, e[2]) \o struct_pack(v)
                            \o SubSeq(file, e[2] + STRUCT_NUM_FORMAT_SIZE + 1, Len(file))]
    /\ UNCHANGED <<dir_exists, index_file, index_buf, wpc, splits, shuffle,
                   start_clean, indexes, enum_idx, triplet, fields_done,
                   submitted, earlier, writes, rd, clean_history>>

\* Sessions on intact data, the overwriting of a prefix, and lookups; once
\* a prefix is overwritten only the lookups of the damaged dataset follow.
CorruptNext ==
    \/ Intact /\ WriterNext
    \/ (\E i \in 0..(MaxWrites + 1) : CallGetItem(i)) /\ UNCHANGED queue_vars
    \/ /\ \E i \in 0..(MaxWrites - 1), d \in {-1, 1} :
             CorruptPrefix(i, IndexEntry(i)[3] + d)
       /\ UNCHANGED queue_vars

SpecCorrupt == Init /\ [][CorruptNext]_vars

(***************************************************************************)
(* Truncated files: a bin file or the index file loses bytes at its end    *)
(* (a crash, a full disk, a partial copy).                                 *)
(***************************************************************************)
\* The bytes the session has written to the index file so far.
logical_size ==
    index_packet_size * enum_idx
        + (IF wpc = "index" THEN STRUCT_NUM_FORMAT_SIZE * fields_done ELSE 0)

\* Nothing is missing: the index file holds what the session wrote and the
\* record of every entry is completely in its bin file.
Whole ==
    \/ index_file = NoFile
    \/ /\ Len(index_file) + Len(index_buf) = logical_size
       /\ \A i \in 0..(NumEntries - 1) :
             /\ PrefixStored(i)
             /\ IndexEntry(i)[2] + STRUCT_NUM_FORMAT_SIZE + IndexEntry(i)[3]
                   <= Len(bin_files[IndexEntry(i)[1]])

\* The bin file that ends with the record of entry i loses bytes of that
\* record's payload.
TruncateBin(i) ==
    /\ wpc = "done" /\ rd.op = "none"
    /\ Whole
    /\ i < NumEntries
    /\ LET e == IndexEntry(i)
           file == bin_files[e[1]]
       IN  /\ e[2] + STRUCT_NUM_FORMAT_SIZE + e[3] = Len(file)
           /\ \E n \in 1..e[3] :
                 bin_files' = [bin_files EXCEPT ![e[1]] =
                                  SubSeq(file, 1, Len(file) - n)]
    /\ UNCHANGED <<dir_exists, index_file, index_buf, wpc, splits, shuffle,
                   start_clean, indexes, enum_idx, triplet, fields_done,
                   submitted, earlier, writes, rd, clean_history>>

\* The index file loses its last n bytes.
TruncateIndex(n) ==
    /\ wpc = "done" /\ rd.op = "none"
    /\ Whole
    /\ index_file # NoFile
    /\ n <= Len(index_file)
    /\ index_file' = SubSeq(index_file, 1, Len(index_file) - n)
    /\ UNCHANGED <<dir_exists, index_buf, bin_files, wpc, splits, shuffle,
                   start_clean, indexes, enum_idx, triplet, fields_done,
                   submitted, earlier, writes, rd, clean_history>>

\* Sessions on whole data, a truncation, and lookups; once a file is
\* truncated only the lookups of the damaged dataset follow.
DamageNext ==
    \/ Whole /\ WriterNext
    \/ (\E i \in 0..(MaxWrites + 1) : CallGetItem(i)) /\ UNCHANGED queue_vars
    \/ (\E i \in 0..(MaxWrites - 1) : TruncateBin(i)) /\ UNCHANGED queue_vars
    \/ (\E n \in 1..(index_packet_size - 1) : TruncateIndex(n))
          /\ UNCHANGED queue_vars

SpecDamage == Init /\ [][DamageNext]_vars

(***************************************************************************)
(* Sessions with more than 10^8 splits: bin numbers of nine digits.        *)
(***************************************************************************)
WideSplits == NineDigits + MaxWrites

\* Entries of the shuffled list(range(WideSplits)) around NineDigits.
WideBins == (NineDigits - 2)..(NineDigits - 2 + MaxWrites)

wide_lists ==
    {p \in [1..MaxWrites -> WideBins] : is_shuffled(p, WideSplits)}

WideNext ==
    \/ /\ Quiescent
       /\ \E c \in BOOLEAN, p \in wide_lists :
             BeginSession(WideSplits, TRUE, c, p)
       /\ UNCHANGED queue_vars
    \/ (\E data \in Records : WriteRecord(data)) /\ UNCHANGED queue_vars
    \/ WriteIndexField /\ UNCHANGED queue_vars
    \/ EndSession /\ UNCHANGED queue_vars
    \/ CallIterateBinwise(FALSE) /\ UNCHANGED queue_vars

SpecWide == Init /\ [][WideNext]_vars

(***************************************************************************)
(* Properties of the storage format, the writer and the reader.            *)
(***************************************************************************)
SessionEnded == wpc \in {"done", "failed"}

\* C1: after a completed session with shuffle = false and start_clean = true,
\* dataset[i] is exactly the i-th submitted record, for every i < len(R).
C1_RoundTrip ==
    (wpc = "done" /\ ~shuffle /\ start_clean
        /\ rd.op = "getitem" /\ rd.idx < Len(submitted))
    => (rd.kind = "ok" /\ rd.data = submitted[rd.idx + 1])

C1_Witness ==
    /\ wpc = "done" /\ ~shuffle /\ start_clean
    /\ submitted = << <<>>, <<7>>, <<8, 9>> >>
    /\ rd.op = "getitem" /\ rd.idx = 2 /\ rd.kind = "ok" /\ rd.data = <<8, 9>>

\* C2: a session given N records (any splits, either shuffle) completes, and
\* len(dataset) is then N.
C2_LengthIsN ==
    (SessionEnded /\ rd.op = "len")
    => (wpc = "done" /\ rd.kind = "ok" /\ rd.value = Len(submitted))

\* C3: with shuffle = true the session completes and dataset[i] is the i-th
\* submitted record, for every i < len(R).
C3_ShuffleKeepsIndexOrder ==
    (SessionEnded /\ shuffle /\ rd.op = "getitem" /\ rd.idx < Len(submitted))
    => (wpc = "done" /\ rd.kind = "ok" /\ rd.data = submitted[rd.idx + 1])

\* C4: with shuffle = false the record at insertion position i goes to bin
\* i mod splits, and no bin numbered splits or more is created.
C4_BinIsPositionModSplits ==
    /\ (wpc = "index" /\ ~shuffle) => triplet[1] = enum_idx % splits
    /\ (wpc # "idle" /\ ~shuffle /\ start_clean)
          => \A b \in DOMAIN bin_files : b < splits

\* The records index access returns, in index order.
IndexedRecords == [i \in 1..NumEntries |-> getitem(i - 1).data]

\* C5: for a directory made by completed sessions, a full iterate_binwise
\* traversal yields exactly the multiset of the indexed records.
C5_BinwiseComplete ==
    (wpc = "done" /\ clean_history /\ rd.op = "binwise")
    => (rd.kind = "ok" /\ BagOf(rd.out) = BagOf(IndexedRecords))

\* C6: after a completed session, dataset[i] with i >= len(dataset) fails
\* with the index lookup's ValueError, returns no data and opens no bin file.
C6_OutOfBounds ==
    (wpc = "done" /\ rd.op = "getitem" /\ rd.idx >= NumEntries)
    => (rd.kind = "ValueError" /\ rd.msg = "unable to read value"
        /\ rd.data = <<>> /\ ~rd.bin_opened)

C6_Witness ==
    /\ wpc = "done" /\ Len(submitted) = 2 /\ NumEntries = 2
    /\ rd.op = "getitem" /\ rd.idx = 2 /\ rd.kind = "ValueError"

\* C7: when the length prefix stored at an entry's byte_offset differs from
\* the entry's length, dataset[i] fails with the size mismatch and returns
\* no data.
C7_CorruptionDetected ==
    (rd.op = "getitem" /\ rd.idx < NumEntries /\ PrefixStored(rd.idx)
        /\ StoredPrefix(rd.idx) # IndexEntry(rd.idx)[3])
    => (rd.kind = "ValueError" /\ rd.msg = "Size mismatch" /\ rd.data = <<>>)

C7_Witness ==
    /\ rd.op = "getitem" /\ rd.idx < NumEntries /\ PrefixStored(rd.idx)
    /\ StoredPrefix(rd.idx) > IndexEntry(rd.idx)[3]
    /\ IndexEntry(rd.idx)[3] = 1
    /\ rd.kind = "ValueError" /\ rd.msg = "Size mismatch"

\* C10: in every state, every complete index entry i = (bin_index,
\* byte_offset, length) points at a stored prefix equal to length, followed
\* by exactly the i-th record submitted to the session that wrote it.
C10_IndexBinConsistent ==
    \A i \in 0..(NumEntries - 1) :
        LET e == IndexEntry(i)
        IN  /\ i + 1 <= Len(submitted)
            /\ PrefixStored(i)
            /\ StoredPrefix(i) = e[3]
            /\ e[3] = Len(submitted[i + 1])
            /\ SubSeq(bin_files[e[1]], e[2] + STRUCT_NUM_FORMAT_SIZE + 1,
                      e[2] + STRUCT_NUM_FORMAT_SIZE + e[3]) = submitted[i + 1]

\* In the middle of a session on a directory that was not emptied, the
\* buffer has been written out once: the disk holds an entry of this
\* session that points behind a record of the session before.
C10_Witness ==
    /\ wpc = "index" /\ ~start_clean
    /\ NumEntries = 1
    /\ index_buf # <<>>
    /\ IndexEntry(0)[2] > 0
    /\ submitted[1] = <<8, 9>>

\* C12: after sessions that all completed, the last of them with
\* start_clean = false, the dataset holds the records of the earlier
\* sessions followed by the records of the last one: len(dataset) is their
\* number and dataset[i] is the i-th of them.
C12_AppendAcrossSessions ==
    (wpc = "done" /\ clean_history /\ ~start_clean)
    => LET all == earlier \o submitted
       IN  /\ rd.op = "len" => (rd.kind = "ok" /\ rd.value = Len(all))
           /\ (rd.op = "getitem" /\ rd.idx < Len(all))
                 => (rd.kind = "ok" /\ rd.data = all[rd.idx + 1])

\* C16: a lookup that succeeds returns exactly as many bytes as its index
\* entry records; when the bin file holds fewer after the prefix, the lookup
\* fails.
C16_NoShortPayload ==
    (rd.op = "getitem" /\ rd.kind = "ok" /\ rd.idx < NumEntries)
    => Len(rd.data) = IndexEntry(rd.idx)[3]

\* C17: whenever the index file holds fewer than three whole numbers at
\* offset 12 * i, dataset[i] fails with the ValueError of the index lookup.
C17_UniformIndexError ==
    (rd.op = "getitem" /\ index_file # NoFile
        /\ Len(index_file) < index_packet_size * (rd.idx + 1))
    => (rd.kind = "ValueError" /\ rd.msg = "unable to read value")

\* The members of a set of numbers in ascending order.
RECURSIVE ascending(_)
ascending(S) ==
    IF S = {} THEN <<>>
    ELSE LET m == CHOOSE x \in S : \A y \in S : x <= y
         IN  <<m>> \o ascending(S \ {m})

\* The packets of the bin files of `order`, file by file.
RECURSIVE packets_in(_)
packets_in(order) ==
    IF order = <<>> THEN <<>>
    ELSE read_all_size_prefixed_packets(bin_files[Head(order)], 0).packets
             \o packets_in(Tail(order))

\* C18: an unshuffled traversal yields the records of the bin files in
\* ascending order of their numbers, each file's records in the order they
\* are stored; it is the same for every traversal of the same files.
C18_UnshuffledScanOrder ==
    (Quiescent /\ rd.op = "binwise" /\ ~rd.shuffle)
    => (rd.kind = "ok" /\ rd.out = packets_in(ascending(DOMAIN bin_files)))

\* C13: at every moment the index file on disk is a whole number of
\* 12-byte entries, each of a record that is completely in its bin file.
C13_IndexSizeMultipleOf12 ==
    index_file # NoFile =>
        /\ Len(index_file) % index_packet_size = 0
        /\ \A i \in 0..(NumEntries - 1) :
              /\ PrefixStored(i)
              /\ IndexEntry(i)[2] + STRUCT_NUM_FORMAT_SIZE + IndexEntry(i)[3]
                    <= Len(bin_files[IndexEntry(i)[1]])

(***************************************************************************)
(* MpQItr: a worker process runs iterator_handler and feeds a bounded      *)
(* Queue; the consumer calls __iter__ and __next__.                        *)
(***************************************************************************)
\* The i-th item the wrapped producer yields (i = 1, 2, ...).
producer_item(i) == i - 1

EndOfQueue == [kind |-> "EndOfQueue"]

Item(v) == [kind |-> "item", value |-> v]

\* A test for the end that also takes a falsy item (0) for it.
is_end_of_queue_or_falsy(entry) ==
    entry.kind = "EndOfQueue" \/ entry.value = 0

\* isinstance(item, EndOfQueue)
is_end_of_queue(entry) == entry.kind = "EndOfQueue"

Iterating == yield_q \notin {Unset, None}

\* Items yielded so far by the producers of all iterations.
RECURSIVE yielded(_)
yielded(ws) == IF ws = <<>> THEN 0 ELSE Head(ws).produced + yielded(Tail(ws))

\* A Queue() made without maxsize: put never blocks.
queue_full_never(q) == FALSE

\* Queue(self.qsize): put blocks while the queue holds qsize entries.
queue_full(q) == Len(q) >= qsize

\* A channel created once and used again: what the last iteration left in
\* it is still there.
new_channel_reused(leftover) == leftover

\* Line 41: Queue(self.qsize) is a new, empty queue, whatever the queue of
\* the iteration before still holds.
new_channel(leftover) == <<>>

\* A handle that is not cleared when the sentinel is popped.
released_kept(handle) == handle

\* Lines 56-57: self.proc = None; self.yield_q = None.
released(handle) == None

\* A consumer that keeps popping the first queue ever made.
get_channel_first(handle) == 1

\* Line 54: the queue __next__ pops is self.yield_q.
get_channel(handle) == handle

\* __iter__: a new Queue(qsize) and a new started worker replace the handles;
\* the earlier queue and worker, if any, stay as they are.
Iter ==
    /\ Len(queues) < MaxIters
    /\ queues' = Append(queues,
                        new_channel(IF Iterating THEN queues[yield_q] ELSE <<>>))
    /\ workers' = Append(workers, [pc |-> "next", produced |-> 0,
                                   outcome |-> "running"])
    /\ yield_q' = Len(queues) + 1
    /\ proc' = Len(queues) + 1
    /\ out' = <<>>
    /\ last_next' = "none"

\* Line 21: the producer yields its next item.
WorkerYield(w) ==
    /\ w \in DOMAIN workers
    /\ workers[w].pc = "next"
    /\ yielded(workers) < MaxItems
    /\ workers' = [workers EXCEPT ![w].pc = "put",
                                  ![w].produced = workers[w].produced + 1]
    /\ UNCHANGED <<yield_q, proc, queues, out, last_next>>

\* Line 21: the producer is exhausted; the loop ends.
WorkerReturn(w) ==
    /\ w \in DOMAIN workers
    /\ workers[w].pc = "next"
    /\ workers' = [workers EXCEPT ![w].pc = "put_end", ![w].outcome = "returned"]
    /\ UNCHANGED <<yield_q, proc, queues, out, last_next>>

\* Lines 23-24: the producer raises an Exception, which is logged.
WorkerException(w) ==
    /\ w \in DOMAIN workers
    /\ workers[w].pc = "next"
    /\ workers' = [workers EXCEPT ![w].pc = "put_end", ![w].outcome = "Exception"]
    /\ UNCHANGED <<yield_q, proc, queues, out, last_next>>

\* Line 23: `except Exception` does not catch a BaseException that is no
\* Exception (SystemExit, KeyboardInterrupt, GeneratorExit); it leaves
\* iterator_handler and the worker process ends.
WorkerBaseException(w) ==
    /\ w \in DOMAIN workers
    /\ workers[w].pc = "next"
    /\ workers' = [workers EXCEPT ![w].pc = "died", ![w].outcome = "BaseException"]
    /\ UNCHANGED <<yield_q, proc, queues, out, last_next>>

\* Line 22: outq.put(item), which blocks while the queue holds qsize entries.
WorkerPut(w) ==
    /\ w \in DOMAIN workers
    /\ workers[w].pc = "put"
    /\ ~queue_full(queues[w])
    /\ queues' = [queues EXCEPT ![w] =
                     Append(@, Item(producer_item(workers[w].produced)))]
    /\ workers' = [workers EXCEPT ![w].pc = "next"]
    /\ UNCHANGED <<yield_q, proc, out, last_next>>

\* Line 26: outq.put(EndOfQueue()).
WorkerPutEnd(w) ==
    /\ w \in DOMAIN workers
    /\ workers[w].pc = "put_end"
    /\ ~queue_full(queues[w])
    /\ queues' = [queues EXCEPT ![w] = Append(@, EndOfQueue)]
    /\ workers' = [workers EXCEPT ![w].pc = "exited"]
    /\ UNCHANGED <<yield_q, proc, out, last_next>>

\* __next__ before any __iter__: self.yield_q is not set.
NextUnset ==
    /\ yield_q = Unset
    /\ last_next' = "AttributeError"
    /\ UNCHANGED <<yield_q, proc, queues, workers, out>>

\* Lines 51-52: __next__ with yield_q None.
NextAfterEnd ==
    /\ yield_q = None
    /\ last_next' = "StopIteration"
    /\ UNCHANGED <<yield_q, proc, queues, workers, out>>

\* Lines 54-59: yield_q.get(), which blocks while the queue is empty.
NextGet ==
    /\ Iterating
    /\ queues[get_channel(yield_q)] # <<>>
    /\ LET item == Head(queues[get_channel(yield_q)])
       IN  IF is_end_of_queue(item)
           THEN /\ proc' = released(proc)
                /\ yield_q' = released(yield_q)
                /\ last_next' = "StopIteration"
                /\ out' = out
           ELSE /\ out' = Append(out, item.value)
                /\ last_next' = "item"
                /\ UNCHANGED <<proc, yield_q>>
    /\ queues' = [queues EXCEPT ![get_channel(yield_q)] = Tail(@)]
    /\ UNCHANGED workers

WorkerStep(w) ==
    \/ WorkerYield(w)
    \/ WorkerReturn(w)
    \/ WorkerException(w)
    \/ WorkerBaseException(w)
    \/ WorkerPut(w)
    \/ WorkerPutEnd(w)

\* iter() on a wrapper that has no iteration under way.
Start == ~Iterating /\ Iter

\* iter() called again before the sentinel of the iteration under way was
\* popped: that iteration is abandoned.
Restart == Iterating /\ Iter

QueueNext ==
    \/ Start /\ UNCHANGED storage_vars
    \/ (\E w \in 1..MaxIters : WorkerYield(w)) /\ UNCHANGED storage_vars
    \/ (\E w \in 1..MaxIters : WorkerReturn(w)) /\ UNCHANGED storage_vars
    \/ (\E w \in 1..MaxIters : WorkerException(w)) /\ UNCHANGED storage_vars
    \/ (\E w \in 1..MaxIters : WorkerBaseException(w)) /\ UNCHANGED storage_vars
    \/ (\E w \in 1..MaxIters : WorkerPut(w)) /\ UNCHANGED storage_vars
    \/ (\E w \in 1..MaxIters : WorkerPutEnd(w)) /\ UNCHANGED storage_vars
    \/ NextUnset /\ UNCHANGED storage_vars
    \/ NextAfterEnd /\ UNCHANGED storage_vars
    \/ NextGet /\ UNCHANGED storage_vars

SpecQ == Init /\ [][QueueNext]_vars

\* The worker process is scheduled while it can run, and the consumer keeps
\* calling __next__.
FairSpecQ ==
    /\ SpecQ
    /\ \A w \in 1..MaxIters : WF_vars(WorkerStep(w) /\ UNCHANGED storage_vars)
    /\ WF_vars(NextGet /\ UNCHANGED storage_vars)

\* The wrapper used without restraint: iter() may also be called again in
\* the middle of an iteration.
RestartNext ==
    \/ QueueNext
    \/ Restart /\ UNCHANGED storage_vars

SpecQR == Init /\ [][RestartNext]_vars

(***************************************************************************)
(* Properties of MpQItr.                                                   *)
(***************************************************************************)
\* The worker of the current (or last) iteration.
CurrentWorker == workers[Len(workers)]

ProducerItems(n) == [i \in 1..n |-> producer_item(i)]

\* C8: when the producer completes without failure and the consumer has
\* drained the queue, the consumer got exactly the producer's items, each
\* once and in the producer's order; before that it holds a prefix of them.
C8_QueueEquivalence ==
    /\ (yield_q = None /\ CurrentWorker.outcome = "returned")
          => out = ProducerItems(CurrentWorker.produced)
    /\ (Iterating /\ CurrentWorker.outcome \in {"running", "returned"})
          => /\ Len(out) <= CurrentWorker.produced
             /\ out = ProducerItems(Len(out))

C8_Witness ==
    /\ yield_q = None
    /\ CurrentWorker.outcome = "returned"
    /\ CurrentWorker.produced = MaxItems
    /\ out = ProducerItems(MaxItems)

\* C9: in every iteration, however the producer ends, the consumer that
\* keeps calling next() eventually gets StopIteration.
C9_EndOfStreamAlwaysArrives == Iterating ~> (yield_q = None)

\* Entries worker w has put on its queue: its items, and the sentinel once
\* it has exited.
ItemsPushed(w) ==
    workers[w].produced - (IF workers[w].pc = "put" THEN 1 ELSE 0)

EntriesPushed(w) ==
    ItemsPushed(w) + (IF workers[w].pc = "exited" THEN 1 ELSE 0)

\* C11: a queue never holds more than 16 entries, and the worker is never
\* more than 16 pushed entries ahead of what the consumer has popped: a put
\* on a queue of 16 waits for a pop.
C11_BoundedChannel ==
    /\ \A w \in DOMAIN queues : Len(queues[w]) <= qsize
    /\ Iterating =>
          /\ EntriesPushed(yield_q) - Len(out) <= qsize
          /\ EntriesPushed(yield_q) - Len(out) = Len(queues[yield_q])

\* The queue is full and the worker holds the next item, waiting to put it.
C11_Witness ==
    /\ Iterating
    /\ Len(queues[yield_q]) = qsize
    /\ workers[yield_q].pc = "put"
    /\ workers[yield_q].produced = qsize + 1

\* C14: when the producer raises after yielding k items, the consumer that
\* keeps calling next() gets exactly those k items in order and then
\* StopIteration.
C14_ProducerFailureTruncates ==
    (Iterating /\ workers[yield_q].outcome \in {"Exception", "BaseException"})
        ~> (/\ yield_q = None
            /\ last_next = "StopIteration"
            /\ out = ProducerItems(CurrentWorker.produced))

\* Everything worker w has put on its queue so far, in order.
ChannelStream(w) ==
    [i \in 1..ItemsPushed(w) |-> Item(producer_item(i))]
        \o (IF workers[w].pc = "exited" THEN <<EndOfQueue>> ELSE <<>>)

\* C15: the iteration under way is always the one started by the last call
\* of iter(), with its own worker and its own queue, and what the consumer
\* has got followed by what waits in that queue is exactly what that worker
\* has put, from the producer's first item on: the queue started empty and
\* nothing of an earlier queue is in it.
C15_FreshRestart ==
    Iterating =>
        /\ yield_q = Len(queues)
        /\ proc = yield_q
        /\ [i \in 1..Len(out) |-> Item(out[i])] \o queues[yield_q]
               = ChannelStream(yield_q)

\* iter() was called again while entries of the first iteration were still
\* queued, and the consumer has since got items of the second iteration.
C15_Witness ==
    /\ Len(queues) > 1
    /\ Iterating
    /\ queues[1] # <<>>
    /\ workers[1].produced > 1
    /\ Len(out) > 0

\* Worker w of an abandoned iteration waits to put on its full queue.
Blocked(w) ==
    /\ w # yield_q
    /\ workers[w].pc \in {"put", "put_end"}
    /\ Len(queues[w]) = qsize

IsPrefix(s, t) == Len(s) <= Len(t) /\ s = SubSeq(t, 1, Len(s))

\* C19: nothing is ever popped from the queue of an iteration that is not
\* the one under way and no queue takes more than 16 entries, so a worker of
\* an abandoned iteration that waits to put on its full queue waits
\* forever: it never puts its sentinel and never exits.
C19_AbandonedWorkerBlocked ==
    /\ [](\A w \in DOMAIN queues : Len(queues[w]) <= qsize)
    /\ [][\A w \in DOMAIN queues :
             /\ w # yield_q => IsPrefix(queues[w], queues'[w])
             /\ Blocked(w) => /\ queues'[w] = queues[w]
                              /\ workers'[w] = workers[w]
                              /\ yield_q' # w]_vars

\* The first iteration was abandoned and its worker waits on a full queue
\* with an item in hand.
C19_Witness ==
    /\ Len(queues) > 1
    /\ Blocked(1)
    /\ workers[1].pc = "put"

\* One step in which the consumer pops the head of its queue.
Popped ==
    /\ Iterating
    /\ queues[yield_q] # <<>>
    /\ Len(queues') = Len(queues)
    /\ queues'[yield_q] = Tail(queues[yield_q])

\* A step taken while the consumer holds no queue: next() raises
\* StopIteration and pops nothing, or iter() starts the next iteration.
StepWhileStopped ==
    \/ /\ yield_q' = None
       /\ proc' = None
       /\ last_next' = "StopIteration"
       /\ out' = out
       /\ \A w \in DOMAIN queues : IsPrefix(queues[w], queues'[w])
    \/ /\ yield_q' = Len(queues) + 1
       /\ Len(queues') = Len(queues) + 1

\* What next() does with the entry it popped.
PoppedEntryHandled ==
    IF Head(queues[yield_q]) = EndOfQueue
    THEN /\ yield_q' = None
         /\ proc' = None
         /\ last_next' = "StopIteration"
         /\ out' = out
    ELSE /\ out' = Append(out, Head(queues[yield_q]).value)
         /\ last_next' = "item"
         /\ yield_q' = yield_q

\* C20: once the sentinel is popped both handles are None and stay None
\* until iter() is called again, next() raises StopIteration and pops
\* nothing; and a popped entry that is not the sentinel is returned as it
\* was put.
C20_StopIsFinal ==
    /\ [](last_next = "StopIteration" => (yield_q = None /\ proc = None))
    /\ [][(yield_q = None => StepWhileStopped)
            /\ (Popped => PoppedEntryHandled)]_vars

\* The consumer got items, then the sentinel, and holds no handle.
C20_Witness ==
    /\ yield_q = None
    /\ proc = None
    /\ last_next = "StopIteration"
    /\ Len(out) > 1

====
